---- MODULE Spec2Model ----
\* Model of the endpoints of src/main.py over the "form", "workflow",
\* "submission", "approval", "document" and "template" collections.  Every
\* database call
\* (find_one, update_one, create_document) is one atomic step; a request handler
\* that makes several database calls is a process whose steps may interleave
\* with the steps of other requests.
EXTENDS Integers, Sequences, FiniteSets

\* ---------------------------------------------------------------- bounds
MaxSubmissions == 1
MaxWorkflows == 1
MaxCalls == 2
MaxDocuments == 1
MaxSeeds == 2

\* ---------------------------------------------------------------- values
\* Python's None for the Optional[str] request fields.
None == "None"

\* The act_on_submission requests, numbered in the order they arrive.
Requests == 1..MaxCalls

\* Literal of schemas.Submission.status
Statuses == {"pending", "approved", "rejected", "archived"}

\* ApprovalIn.action is a free str; "escalated" stands for any other word.
Actions == {"approved", "rejected", "escalated"}

\* ApprovalIn.actor_id / ApprovalIn.comment are passed through unread (but for
\* `comment or ""`): request c carries an actor of its own, and a comment or None.
ActorOf(c) == <<"u", c>>

CommentOf(c) == IF c % 2 = 1 THEN None ELSE "lgtm"

\* WorkflowIn.steps: each step is modelled by its "type".
StepLists == {<< >>, <<"approval", "approval">>}

\* An id travels as a str.  [hex |-> TRUE, n |-> k] is the 24-hex-digit string
\* of the k-th ObjectId the collection handed out, [hex |-> FALSE, ...] a string
\* that is no ObjectId.
StrOf(oid) == [hex |-> TRUE, n |-> oid]

Malformed == [hex |-> FALSE, n |-> 0]

SubmissionIdStrings == {StrOf(k) : k \in 1..(MaxSubmissions + 1)} \cup {Malformed}

DocumentIdStrings == {StrOf(k) : k \in 1..(MaxDocuments + 1)} \cup {Malformed}

\* GeneratePDFIn.title
Titles == {None, "Q3 invoice"}

\* The seed_templates requests, numbered in the order they arrive.
SeedRequests == 1..MaxSeeds

\* lines 336-419: the names of the three seeded forms, the step types of the
\* three seeded workflows and the keys of the three seeded templates.
SeedForms == <<"Invoice Approval", "Expense Reimbursement", "Purchase Order">>

SeedSteps == <<(<<"approval", "approval">>), (<<"approval">>), (<<"approval", "approval">>)>>

SeedKeys == <<"invoice_approval", "expense_reimbursement", "purchase_order">>

\* bson.ObjectId(s): raises InvalidId unless s is a 24-hex-digit string.
ObjectIdRaises(s) == ~s.hex

ObjectId(s) == s.n

VARIABLES
    submission,   \* db["submission"]: sequence of documents, _id = index
    workflow,     \* db["workflow"]
    approval,     \* db["approval"]
    call,         \* per request: the frame of its act_on_submission handler
    form,         \* db["form"]
    document,     \* db["document"]
    template,     \* db["template"]
    reportlab,    \* REPORTLAB_AVAILABLE, set when the module is imported
    seed,         \* per request: the frame of its seed_templates handler
    last          \* the response of the latest document or read request

\* The state the document, template and read endpoints add to the approval core.
docs == <<form, document, template, reportlab, seed, last>>

vars == <<submission, workflow, approval, call, docs>>

\* ---------------------------------------------------------------- database
\* database.create_document(collection, data): insert, the new _id is returned.
create_document(coll, data) == Append(coll, data)

\* db[coll].find_one({"_id": oid}): the document, or None (here << >>).
find_one(coll, oid) == IF oid \in DOMAIN coll THEN <<coll[oid]>> ELSE << >>

\* db[coll].update_one({"_id": oid}, {"$set": {"status": s, "updated_at": ...}});
\* the timestamp is not modelled.
update_one_status(coll, oid, s) ==
    [k \in DOMAIN coll |-> IF k = oid THEN [coll[k] EXCEPT !.status = s] ELSE coll[k]]

\* ---------------------------------------------------------------- responses
Idle == [pc |-> "idle", submission_id |-> Malformed, action |-> "approved",
         actor_id |-> << >>, comment |-> None, sub |-> << >>,
         code |-> 0, status |-> None]

SeedIdle == [pc |-> "idle", n |-> 0, forms |-> << >>, workflows |-> << >>,
             status |-> None]

NoResponse == [op |-> "none", id |-> Malformed, code |-> 0]

Init ==
    /\ submission = << >>
    /\ workflow = << >>
    /\ approval = << >>
    /\ call = [c \in Requests |-> Idle]
    /\ form = << >>
    /\ document = << >>
    /\ template = << >>
    /\ reportlab \in BOOLEAN
    /\ seed = [s \in SeedRequests |-> SeedIdle]
    /\ last = NoResponse

\* ---------------------------------------------------------------- workflows
\* lines 167-170
create_workflow ==
    /\ Len(workflow) < MaxWorkflows
    /\ \E steps \in StepLists :
          workflow' = create_document(workflow, [steps |-> steps, form_id |-> 0])
    /\ UNCHANGED <<submission, approval, call, docs>>

\* ---------------------------------------------------------------- submissions
\* lines 190-195.  Of the stored document the model keeps the fields some
\* handler reads or writes: status and workflow_id (0 is None, w > 0 the id
\* string of the w-th workflow; the id is stored unchecked, so it may name a
\* workflow that does not exist).  form_id, data and requester_id are stored
\* and never read again by the handlers modelled here.
create_submission ==
    /\ Len(submission) < MaxSubmissions
    /\ \E wf \in 0..MaxWorkflows :
          submission' = create_document(submission,
                            [workflow_id |-> wf, status |-> "pending"])
    /\ UNCHANGED <<workflow, approval, call, docs>>

\* ---------------------------------------------------------------- approvals
\* Faulty variants of NewStatus: every action approves; the verb is stored, not the status.
NewStatus_always_approved(action) == "approved"

NewStatus_verb(action) == IF action = "approved" THEN "approve" ELSE "reject"

\* Faulty variant of NewStatus: a rejection archives.
NewStatus_archives(action) == IF action = "approved" THEN "approved" ELSE "archived"

\* line 221
NewStatus(action) == IF action = "approved" THEN "approved" ELSE "rejected"

\* line 215
ValidAction(action) == action \in {"approved", "rejected"}

\* The handler ends with a response (code, and the status of line 230); the
\* frame stays as the request's history.
Respond(r, code, status) == [r EXCEPT !.pc = "done", !.code = code, !.status = status]

\* lines 215-220: the request arrives, is validated and the submission is read.
ActFind(c) ==
    /\ call[c].pc = "idle"
    /\ \A d \in Requests : d < c => call[d].pc # "idle"
    /\ \E sid \in SubmissionIdStrings, action \in Actions :
          LET r == [Idle EXCEPT !.submission_id = sid, !.action = action,
                                !.actor_id = ActorOf(c), !.comment = CommentOf(c)]
              sub == find_one(submission, ObjectId(sid))
          IN  IF ~ValidAction(action)
              THEN call' = [call EXCEPT ![c] = Respond(r, 400, None)]
              ELSE IF ObjectIdRaises(sid)
              THEN call' = [call EXCEPT ![c] = Respond(r, 500, None)]
              ELSE IF sub = << >>
              THEN call' = [call EXCEPT ![c] = Respond(r, 404, None)]
              ELSE call' = [call EXCEPT ![c] = [r EXCEPT !.pc = "found", !.sub = sub]]
    /\ UNCHANGED <<submission, workflow, approval, docs>>

\* Faulty variants of ActUpdate: the handler goes on to the record without
\* writing the status; the status is written only over pending.
ActUpdate_no_write(c) ==
    /\ call[c].pc = "found"
    /\ call' = [call EXCEPT ![c].pc = "updated"]
    /\ UNCHANGED <<submission, workflow, approval, docs>>

ActUpdate_if_pending(c) ==
    /\ call[c].pc = "found"
    /\ submission' = IF call[c].sub[1].status = "pending"
                      THEN update_one_status(submission, ObjectId(call[c].submission_id),
                                             NewStatus(call[c].action))
                      ELSE submission
    /\ call' = [call EXCEPT ![c].pc = "updated"]
    /\ UNCHANGED <<workflow, approval, docs>>

\* line 222
ActUpdate(c) ==
    /\ call[c].pc = "found"
    /\ submission' = update_one_status(submission, ObjectId(call[c].submission_id),
                                       NewStatus(call[c].action))
    /\ call' = [call EXCEPT ![c].pc = "updated"]
    /\ UNCHANGED <<workflow, approval, docs>>

\* lines 224-229
ApprovalRecord(r) ==
    [submission_id |-> r.submission_id, action |-> r.action,
     actor_id |-> r.actor_id,
     comment |-> IF r.comment = None THEN "" ELSE r.comment]

\* Faulty variant of ActLog: the handler returns without writing the record.
ActLog_no_record(c) ==
    /\ call[c].pc = "updated"
    /\ call' = [call EXCEPT ![c] = Respond(call[c], 200, NewStatus(call[c].action))]
    /\ UNCHANGED <<submission, workflow, approval, docs>>

\* Faulty variant of ActLog: the insert is retried and the record written twice.
ActLog_twice(c) ==
    /\ call[c].pc = "updated"
    /\ approval' = create_document(create_document(approval, ApprovalRecord(call[c])),
                                    ApprovalRecord(call[c]))
    /\ call' = [call EXCEPT ![c] = Respond(call[c], 200, NewStatus(call[c].action))]
    /\ UNCHANGED <<submission, workflow, docs>>

\* lines 224-230: the record is inserted and the handler returns.
ActLog(c) ==
    /\ call[c].pc = "updated"
    /\ approval' = create_document(approval, ApprovalRecord(call[c]))
    /\ call' = [call EXCEPT ![c] = Respond(call[c], 200, NewStatus(call[c].action))]
    /\ UNCHANGED <<submission, workflow, docs>>

\* lines 224-229: create_document raises (the store is unreachable) after the
\* update of line 222 was applied: the request ends with no record and no 200.
ActAbort(c) ==
    /\ call[c].pc = "updated"
    /\ call' = [call EXCEPT ![c] = Respond(call[c], 500, None)]
    /\ UNCHANGED <<submission, workflow, approval, docs>>

act_on_submission(c) ==
    \/ ActFind(c)
    \/ ActUpdate(c)
    \/ ActLog(c)
    \/ ActAbort(c)

Next ==
    \/ create_workflow
    \/ create_submission
    \/ \E c \in Requests : act_on_submission(c)

Spec == Init /\ [][Next]_vars

\* ---------------------------------------------------------------- documents
Response(op, id, code) == [op |-> op, id |-> id, code |-> code]

\* lines 277-284: the stored Document, without its PDF bytes.
GeneratedDocument(sid, title) ==
    [submission_id |-> sid,
     title |-> IF title = None THEN "Generated PDF" ELSE title,
     archived |-> FALSE]

\* lines 238-285.  find_one and create_document are taken as one step: no
\* operation deletes a Submission, and of the Submission read only its
\* existence reaches the stored Document.
generate_pdf(sid, title) ==
    /\ IF ~reportlab \/ ObjectIdRaises(sid)
       THEN /\ last' = Response("generate_pdf", sid, 500)
            /\ UNCHANGED document
       ELSE IF find_one(submission, ObjectId(sid)) = << >>
       THEN /\ last' = Response("generate_pdf", sid, 404)
            /\ UNCHANGED document
       ELSE /\ Len(document) < MaxDocuments
            /\ document' = create_document(document, GeneratedDocument(sid, title))
            /\ last' = Response("generate_pdf", sid, 200)
    /\ UNCHANGED <<submission, workflow, approval, call, form, template, reportlab, seed>>

\* line 289: update_one with $set archived True on the document of that id.
update_one_archived(coll, oid) ==
    [k \in DOMAIN coll |-> IF k = oid THEN [coll[k] EXCEPT !.archived = TRUE] ELSE coll[k]]

\* Faulty variant of archive_document: archiving a Document also archives the
\* Submission it was generated from.
archive_document_cascade(document_id) ==
    /\ IF ObjectIdRaises(document_id)
       THEN /\ last' = Response("archive_document", document_id, 500)
            /\ UNCHANGED <<document, submission>>
       ELSE IF ObjectId(document_id) \notin DOMAIN document
       THEN /\ last' = Response("archive_document", document_id, 404)
            /\ UNCHANGED <<document, submission>>
       ELSE /\ document' = update_one_archived(document, ObjectId(document_id))
            /\ submission' = update_one_status(submission,
                                 ObjectId(document[ObjectId(document_id)].submission_id),
                                 "archived")
            /\ last' = Response("archive_document", document_id, 200)
    /\ UNCHANGED <<workflow, approval, call, form, template, reportlab, seed>>

\* lines 287-292
archive_document(document_id) ==
    /\ IF ObjectIdRaises(document_id)
       THEN /\ last' = Response("archive_document", document_id, 500)
            /\ UNCHANGED document
       ELSE IF ObjectId(document_id) \notin DOMAIN document
       THEN /\ last' = Response("archive_document", document_id, 404)
            /\ UNCHANGED document
       ELSE /\ document' = update_one_archived(document, ObjectId(document_id))
            /\ last' = Response("archive_document", document_id, 200)
    /\ UNCHANGED <<submission, workflow, approval, call, form, template, reportlab, seed>>

\* lines 197-205 and 294-303: the reads return items and write nothing.
list_submissions ==
    /\ last' = Response("list_submissions", Malformed, 200)
    /\ UNCHANGED <<submission, workflow, approval, call, form, document, template,
                   reportlab, seed>>

list_documents ==
    /\ last' = Response("list_documents", Malformed, 200)
    /\ UNCHANGED <<submission, workflow, approval, call, form, document, template,
                   reportlab, seed>>

\* The document operations on their own, with the intake of Submissions.
DocNext ==
    \/ create_submission
    \/ \E sid \in SubmissionIdStrings : \E title \in Titles : generate_pdf(sid, title)
    \/ \E document_id \in DocumentIdStrings : archive_document(document_id)
    \/ list_submissions
    \/ list_documents

DocSpec == Init /\ [][DocNext]_vars

\* ---------------------------------------------------------------- templates
Seeding(s) == seed[s].pc = "seeding"

\* Faulty variant of SeedCheck: the template collection is not counted.
SeedCheck_unconditional(s) ==
    /\ seed[s].pc = "idle"
    /\ \A t \in SeedRequests : t < s => seed[t].pc # "idle"
    /\ seed' = [seed EXCEPT ![s].pc = "seeding"]
    /\ UNCHANGED <<submission, workflow, approval, call, form, document, template,
                   reportlab, last>>

\* lines 331-333
SeedCheck(s) ==
    /\ seed[s].pc = "idle"
    /\ \A t \in SeedRequests : t < s => seed[t].pc # "idle"
    /\ seed' = [seed EXCEPT ![s] =
                    IF Len(template) > 0
                    THEN [@ EXCEPT !.pc = "done", !.status = "already_seeded"]
                    ELSE [@ EXCEPT !.pc = "seeding"]]
    /\ UNCHANGED <<submission, workflow, approval, call, form, document, template,
                   reportlab, last>>

\* lines 335-421: the nine create_document calls in program order - form and
\* workflow of each of the three templates in turn, then the three templates -
\* and the return after the last.
SeedInsert(s) ==
    /\ Seeding(s)
    /\ LET n == seed[s].n + 1
           K == Len(SeedForms)
           i == (n + 1) \div 2
       IN  IF n <= 2 * K /\ n % 2 = 1
           THEN /\ form' = create_document(form, [name |-> SeedForms[i]])
                /\ seed' = [seed EXCEPT ![s].n = n,
                                        ![s].forms = Append(@, StrOf(Len(form')))]
                /\ UNCHANGED <<workflow, template>>
           ELSE IF n <= 2 * K
           THEN /\ workflow' = create_document(workflow,
                                   [steps |-> SeedSteps[i],
                                    form_id |-> ObjectId(seed[s].forms[i])])
                /\ seed' = [seed EXCEPT ![s].n = n,
                                        ![s].workflows = Append(@, StrOf(Len(workflow')))]
                /\ UNCHANGED <<form, template>>
           ELSE /\ template' = create_document(template,
                                   [key |-> SeedKeys[n - 2 * K],
                                    form |-> seed[s].forms[n - 2 * K],
                                    workflow |-> seed[s].workflows[n - 2 * K]])
                /\ seed' = IF n = 3 * K
                           THEN [seed EXCEPT ![s].n = n, ![s].pc = "done",
                                             ![s].status = "seeded"]
                           ELSE [seed EXCEPT ![s].n = n]
                /\ UNCHANGED <<form, workflow>>
    /\ UNCHANGED <<submission, approval, call, document, reportlab, last>>

\* seed_templates called again only after the call before it has returned,
\* beside the creation of workflows and Submissions by hand.  A workflow's
\* form_id is kept as the Submission's workflow_id is: 0 for None, else the
\* number of the id string.
SeedSeqNext ==
    \/ create_workflow
    \/ create_submission
    \/ \E s \in SeedRequests : SeedCheck(s) /\ \A t \in SeedRequests : ~Seeding(t)
    \/ \E s \in SeedRequests : SeedInsert(s)

SeedSeqSpec == Init /\ [][SeedSeqNext]_vars

\* ---------------------------------------------------------------- everything
\* Every operation modelled above, the approval requests interleaving freely.
AllNext ==
    \/ Next
    \/ \E sid \in SubmissionIdStrings : \E title \in Titles : generate_pdf(sid, title)
    \/ \E document_id \in DocumentIdStrings : archive_document(document_id)
    \/ list_submissions
    \/ list_documents
    \/ \E s \in SeedRequests : SeedCheck(s) /\ \A t \in SeedRequests : ~Seeding(t)
    \/ \E s \in SeedRequests : SeedInsert(s)

AllSpec == Init /\ [][AllNext]_vars

\* ================================================================ claims
InFlight(c) == call[c].pc \in {"found", "updated"}

Succeeded(c) == call[c].pc = "done" /\ call[c].code = 200

\* The status the request's find_one saw.
ReadStatus(c) == call[c].sub[1].status

\* How many requests' find_one returned submission k, and how many returned 200.
found_count(k) ==
    Cardinality({c \in Requests : call[c].sub # << >> /\ call[c].submission_id = StrOf(k)})

ok_count(k) ==
    Cardinality({c \in Requests : Succeeded(c) /\ call[c].submission_id = StrOf(k)})

\* The approval records that reference submission k.
RecordsOf(k) == {i \in DOMAIN approval : approval[i].submission_id = StrOf(k)}

ApprovalSteps(steps) == Cardinality({i \in DOMAIN steps : steps[i] = "approval"})

\* Submission k has no workflow attached, or one with zero steps.
Stepless(k) ==
    \/ submission[k].workflow_id = 0
    \/ /\ submission[k].workflow_id \in DOMAIN workflow
       /\ workflow[submission[k].workflow_id].steps = << >>

\* C1: an approve/reject request that read a Submission in status approved,
\* rejected or archived does not succeed.
C1_TerminalRejectsActions ==
    \A c \in Requests :
        (call[c].pc = "done" /\ call[c].sub # << >> /\ ReadStatus(c) # "pending")
            => call[c].code # 200

\* C2: the steps of a request that read a non-pending Submission change neither
\* that Submission's status nor the approval log.
C2_NonPendingCallChangesNothing ==
    [][\A c \in Requests :
          (InFlight(c) /\ ReadStatus(c) # "pending" /\ call'[c] # call[c])
              => /\ approval' = approval
                 /\ submission' = submission]_vars

\* C3: two requests never both succeed from the same pending state of one
\* Submission.
C3_OneWinner ==
    \A c1 \in Requests, c2 \in Requests :
        ( /\ Succeeded(c1) /\ Succeeded(c2)
          /\ call[c1].submission_id = call[c2].submission_id
          /\ ReadStatus(c1) = "pending" /\ ReadStatus(c2) = "pending" )
            => c1 = c2

\* C4: status is monotonic: no step takes a Submission back to pending, from
\* approved to rejected or from rejected to approved.
C4_StatusMonotonic ==
    [][\A k \in DOMAIN submission :
          /\ submission[k].status # "pending" => submission'[k].status # "pending"
          /\ submission[k].status = "approved" => submission'[k].status # "rejected"
          /\ submission[k].status = "rejected" => submission'[k].status # "approved"]_vars

\* C5: when no act_on_submission request is in flight, each Submission has as
\* many Approval records as requests that returned 200 for it.
C5_RecordsEqualSuccesses ==
    (\A c \in Requests : ~InFlight(c))
        => \A k \in DOMAIN submission : Cardinality(RecordsOf(k)) = ok_count(k)

C5_Witness ==
    /\ \A c \in Requests : ~InFlight(c)
    /\ \E k \in DOMAIN submission : ok_count(k) = 2 /\ Cardinality(RecordsOf(k)) = 2

\* C6: an Approval record is appended only by a request whose write changed the
\* status it had read.
C6_RecordOnlyOnChange ==
    [][\A c \in Requests :
          (call[c].pc = "updated" /\ call'[c].pc = "done" /\ call'[c].code = 200)
              => ReadStatus(c) # NewStatus(call[c].action)]_vars

\* C7: on a Submission attached to a Workflow with two approval steps, the first
\* approve leaves the status pending.
C7_FirstApproveKeepsPending ==
    \A c \in Requests : \A k \in DOMAIN submission :
        ( /\ Succeeded(c) /\ call[c].action = "approved"
          /\ call[c].submission_id = StrOf(k)
          /\ found_count(k) = 1
          /\ submission[k].workflow_id \in DOMAIN workflow
          /\ ApprovalSteps(workflow[submission[k].workflow_id].steps) = 2 )
            => submission[k].status = "pending" /\ call[c].status = "pending"

\* C8: on a pending Submission with no Workflow (or a stepless one), the only
\* request ever made, once it has returned 200, has set the status to its
\* action and left exactly one Approval record, carrying its action and actor.
C8_SingleAction ==
    \A c \in Requests : \A k \in DOMAIN submission :
        ( /\ Succeeded(c)
          /\ call[c].submission_id = StrOf(k)
          /\ found_count(k) = 1
          /\ Stepless(k) )
            => /\ ReadStatus(c) = "pending"
               /\ submission[k].status = call[c].action
               /\ call[c].status = call[c].action
               /\ Cardinality(RecordsOf(k)) = 1
               /\ \A i \in RecordsOf(k) :
                     /\ approval[i].action = call[c].action
                     /\ approval[i].actor_id = call[c].actor_id

C8_Witness ==
    \E c \in Requests : \E k \in DOMAIN submission :
        /\ Succeeded(c)
        /\ call[c].submission_id = StrOf(k)
        /\ call[c].action = "rejected"
        /\ call[c].actor_id = ActorOf(2)
        /\ found_count(k) = 1
        /\ submission[k].workflow_id \in DOMAIN workflow
        /\ workflow[submission[k].workflow_id].steps = << >>
        /\ submission[k].status = "rejected"
        /\ Cardinality(RecordsOf(k)) = 1

\* C9: every stored Submission's status is pending, approved, rejected or archived.
C9_StatusInLiteral ==
    \A k \in DOMAIN submission : submission[k].status \in Statuses

C9_Witness ==
    \E k \in DOMAIN submission : \E c \in Requests : \E d \in Requests :
        /\ submission[k].status = "rejected"
        /\ call[c].submission_id = StrOf(k) /\ call[d].submission_id = StrOf(k)
        /\ Succeeded(c) /\ call[c].action = "approved"
        /\ call[d].pc = "updated" /\ call[d].action = "rejected"

\* C10: a request with an action other than approved/rejected ends 400
\* (InvalidAction), and one naming an id that is no stored Submission ends 404
\* (NotFound).
C10_ErrorCodes ==
    \A c \in Requests :
        call[c].pc = "done" =>
            /\ ~ValidAction(call[c].action) => call[c].code = 400
            /\ ( /\ ValidAction(call[c].action)
                 /\ call[c].submission_id \notin {StrOf(k) : k \in DOMAIN submission} )
                   => call[c].code = 404

\* C11: a Submission no approval request has touched yet is as create_submission
\* made it: status pending, current_step_index 0, no Approval record.
C11_FreshSubmission ==
    \A k \in DOMAIN submission :
        found_count(k) = 0 =>
            /\ submission[k].status = "pending"
            /\ RecordsOf(k) = {}
            /\ "current_step_index" \in DOMAIN submission[k]
            /\ submission[k].current_step_index = 0

\* C12: the status write comes before the record: an Approval record exists
\* only for a Submission whose status some request has already written, and
\* only for a request that went through its write.
C12_RecordOnlyAfterWrite ==
    \A i \in DOMAIN approval :
        LET k == ObjectId(approval[i].submission_id)
        IN  /\ k \in DOMAIN submission
            /\ submission[k].status # "pending"
            /\ \E c \in Requests :
                  /\ Succeeded(c)
                  /\ ApprovalRecord(call[c]) = approval[i]
                  /\ submission[k].status \in
                        {NewStatus(call[d].action) : d \in {e \in Requests :
                            /\ call[e].submission_id = approval[i].submission_id
                            /\ call[e].sub # << >>
                            /\ call[e].pc \in {"updated", "done"}}}

\* A request stopped between the two steps: the status is changed, no record.
C12_Witness ==
    \E c \in Requests : \E k \in DOMAIN submission :
        /\ call[c].pc = "done" /\ call[c].code = 500 /\ call[c].sub # << >>
        /\ call[c].submission_id = StrOf(k)
        /\ submission[k].status = NewStatus(call[c].action)
        /\ RecordsOf(k) = {}
        /\ found_count(k) = 1

\* C15: the approval log is append-only: a step leaves it as it is or appends
\* one record, the record of a request that is returning, with that request's
\* action (approved or rejected), id, actor and comment; the request is then done.
C15_AppendOnly ==
    [][\/ approval' = approval
       \/ \E c \in Requests :
             /\ call[c].pc = "updated"
             /\ call'[c].pc = "done"
             /\ approval' = Append(approval, ApprovalRecord(call[c]))
             /\ approval'[Len(approval')].action = call[c].action
             /\ call[c].action \in {"approved", "rejected"}]_vars

C15_Witness ==
    /\ Len(approval) = 2
    /\ approval[1].action = "approved" /\ approval[1].comment = ""
    /\ approval[2].action = "rejected" /\ approval[2].comment = "lgtm"
    /\ approval[1].submission_id = approval[2].submission_id

\* ---------------------------------------------------------------- sequential
\* The approval requests served one at a time: a request is taken up only when
\* no other is between its find_one and its return.
SeqNext ==
    \/ create_workflow
    \/ create_submission
    \/ \E c \in Requests : ActFind(c) /\ \A d \in Requests : ~InFlight(d)
    \/ \E c \in Requests : ActUpdate(c)
    \/ \E c \in Requests : ActLog(c)
    \/ \E c \in Requests : ActAbort(c)

SeqSpec == Init /\ [][SeqNext]_vars

\* C16: when requests do not interleave, the status of a Submission is the
\* action of the latest request that returned 200 for it, whatever the status
\* that request read.
C16_LastActionWins ==
    \A c \in Requests : \A k \in DOMAIN submission :
        ( /\ Succeeded(c)
          /\ call[c].submission_id = StrOf(k)
          /\ \A d \in Requests :
                (d > c /\ call[d].submission_id = StrOf(k) /\ call[d].sub # << >>)
                    => call[d].pc = "found" )
            => /\ submission[k].status = call[c].action
               /\ call[c].status = call[c].action

C16_Witness ==
    \E c \in Requests : \E k \in DOMAIN submission :
        /\ Succeeded(c)
        /\ call[c].submission_id = StrOf(k)
        /\ ReadStatus(c) = "approved"
        /\ call[c].action = "rejected"
        /\ submission[k].status = "rejected"
        /\ ok_count(k) = 2

C14_ArchivedOnlyByArchive ==
    [][\A k \in DOMAIN submission' :
          (submission'[k].status = "archived")
              => /\ k \in DOMAIN submission
                 /\ \/ submission[k].status = "archived"
                    \/ /\ submission[k].status \in {"approved", "rejected"}
                       /\ call' = call
                       /\ last'.op = "archive_document"]_vars

\* An approval request and archive_document have both acted on one Submission:
\* its Document is archived, its status is the request's action.
C14_Witness ==
    \E c \in Requests : \E d \in DOMAIN document :
        /\ Succeeded(c)
        /\ call[c].action = "rejected"
        /\ document[d].submission_id = call[c].submission_id
        /\ document[d].archived
        /\ last = Response("archive_document", StrOf(d), 200)
        /\ submission[ObjectId(call[c].submission_id)].status = "rejected"

\* C17: the archived flag of a Document only rises: a new Document is not
\* archived, no step resets the flag or changes another field, and
\* archive_document called with an id that names no stored Document ends 404
\* and changes nothing, called with the id of a stored one archives exactly
\* that Document and ends 200.
C17_ArchivedMonotonic ==
    [][/\ \A d \in DOMAIN document :
             /\ d \in DOMAIN document'
             /\ document[d].archived => document'[d].archived
             /\ document'[d].submission_id = document[d].submission_id
             /\ document'[d].title = document[d].title
       /\ \A d \in DOMAIN document' : d \notin DOMAIN document => ~document'[d].archived
       /\ (last'.op = "archive_document" /\ (last' # last \/ document' # document))
             => IF ObjectId(last'.id) \in DOMAIN document
                THEN /\ last'.code = 200
                     /\ document' = [d \in DOMAIN document |->
                                        IF d = ObjectId(last'.id)
                                        THEN [document[d] EXCEPT !.archived = TRUE]
                                        ELSE document[d]]
                ELSE /\ last'.code = 404
                     /\ document' = document]_vars

\* C18: with the calls of seed_templates one after another, the first call
\* creates three forms, three workflows and three templates and returns seeded
\* with its three form ids; every later call returns already_seeded and creates
\* nothing.
SeededWorkflows == {w \in DOMAIN workflow : workflow[w].form_id # 0}

C18_SeedOnce ==
    \A s \in SeedRequests :
        seed[s].pc = "done" =>
            /\ Len(form) = 3
            /\ Cardinality(SeededWorkflows) = 3
            /\ Len(template) = 3
            /\ IF s = 1
               THEN /\ seed[s].status = "seeded"
                    /\ seed[s].forms = <<StrOf(1), StrOf(2), StrOf(3)>>
                    /\ {ObjectId(seed[s].workflows[i]) : i \in 1..3} = SeededWorkflows
                    /\ \A i \in 1..3 :
                          /\ template[i].key = SeedKeys[i]
                          /\ template[i].form = seed[s].forms[i]
                          /\ template[i].workflow = seed[s].workflows[i]
                          /\ workflow[ObjectId(seed[s].workflows[i])].form_id = ObjectId(seed[s].forms[i])
                          /\ form[i].name = SeedForms[i]
               ELSE /\ seed[s].status = "already_seeded"
                    /\ seed[s].forms = << >>
                    /\ seed[s].workflows = << >>
                    /\ seed[s].n = 0

C18_Witness ==
    /\ seed[1].pc = "done" /\ seed[1].status = "seeded"
    /\ seed[2].pc = "done" /\ seed[2].status = "already_seeded"
    /\ Len(template) = 3
    /\ Len(workflow) = 4
====
